---- MODULE Spec2Model ----
(***************************************************************************)
(* PiHole6Connection (src/src/pihole6api/conn.py): the session client of   *)
(* the Pi-hole v6 API.  One client, one caller.  The client's code is      *)
(* sequential; it is cut into steps at every network exchange, and the     *)
(* server's answer to each exchange (and the transport's failure) is the   *)
(* nondeterministic input of that step.                                    *)
(*                                                                         *)
(* Python values: None is the empty tuple, a present value v is <<v>>.     *)
(* Strings are tuples of tokens where their inner structure matters (the   *)
(* base URL, a response body).                                             *)
(***************************************************************************)
EXTENDS Integers, Sequences, FiniteSets, TLC

\* ------------------------------------------------------------------ bounds
\* max_retries is drawn from 0..MaxRetries.
MaxRetries == 3
\* retry_delay is drawn from 1..MaxDelay.
MaxDelay == 2
\* A response body holds at most MaxBody tokens.
MaxBody == 1
\* The caller-supplied base URL holds at most MaxTail tokens after the host.
MaxTail == 4
\* At most MaxCloses exit() calls in a row.
MaxCloses == 2

\* ------------------------------------------------------------ Python values
None == <<>>
Some(v) == <<v>>
\* `not x` for a value that is None or a string.
Falsy(x) == x = None \/ x = Some("")

RECURSIVE Pow2(_)
\* 2 ** n
Pow2(n) == IF n <= 0 THEN 1 ELSE 2 * Pow2(n - 1)

\* -------------------------------------------------------------------- URLs
Host == "http://pi.hole"
Slash == "/"
ApiSeg == "api"

RECURSIVE RStripSlash(_)
\* str.rstrip("/")
RStripSlash(s) ==
    IF s # <<>> /\ s[Len(s)] = Slash
    THEN RStripSlash(SubSeq(s, 1, Len(s) - 1))
    ELSE s

\* __init__: self.base_url = base_url.rstrip("/") + "/api/"
NormalizeBaseUrl(u) == RStripSlash(u) \o <<Slash, ApiSeg, Slash>>

\* _do_call: url = f"{self.base_url}{endpoint}"
TargetUrl(base, endpoint) == base \o <<endpoint>>

RECURSIVE SeqsUpTo(_, _)
\* All sequences over S of length at most n.
SeqsUpTo(S, n) ==
    IF n = 0 THEN {<<>>}
    ELSE LET shorter == SeqsUpTo(S, n - 1)
         IN  shorter \cup {Append(s, x) : s \in shorter, x \in S}

\* The base URLs a caller may supply: the host followed by slashes and "api".
BaseInputs == {<<Host>> \o t : t \in SeqsUpTo({Slash, ApiSeg}, MaxTail)}
\* The base URL the examples of the documentation use without a path.
PlainBase == <<Host>>
Endpoints == {"stats", "teleporter", "auth"}

\* ---------------------------------------------------------- response bodies
\* A body is a tuple of tokens: " " is one whitespace character, "J" a complete
\* JSON document, "x" text that is not JSON.
BodyTokens == {" ", "J", "x"}
Bodies == SeqsUpTo(BodyTokens, MaxBody)

RECURSIVE LStripWs(_)
LStripWs(b) == IF b # <<>> /\ b[1] = " " THEN LStripWs(Tail(b)) ELSE b
RECURSIVE RStripWs(_)
RStripWs(b) ==
    IF b # <<>> /\ b[Len(b)] = " " THEN RStripWs(SubSeq(b, 1, Len(b) - 1)) ELSE b
\* bytes.strip()
Strip(b) == LStripWs(RStripWs(b))
\* response.json() succeeds: one JSON document, whitespace around it allowed.
Parseable(b) == Strip(b) = <<"J">>
\* The value response.json() returns.
ParseJson(b) == <<"parsed", Strip(b)>>
EmptyMapping == <<"parsed", <<>>>>
\* {"error": f"HTTP {response.status_code}: {response.reason}"}
HttpErrorMapping(status) == <<"error", <<"HTTP", status>>>>

\* ------------------------------------------------------------ the transport
\* Retry(status_forcelist=[429, 500, 502, 503, 504])
StatusForcelist == {429, 500, 502, 503, 504}
\* The statuses the server answers an API request with.
Statuses == {200, 304, 401, 404, 429, 503, 501}
\* The failures of one exchange below HTTP.
NetErrors == {"ConnectionError", "Timeout"}
NoExc == "None"

Response(status, body) == [exc |-> NoExc, status |-> status, body |-> body]
Failure(e) == [exc |-> e, status |-> 0, body |-> <<>>]
NoResponse == Failure("unset")
\* What the wire log keeps of an exchange: the failure or the status.
Seen(x) == [exc |-> x.exc, status |-> x.status]
NoExchange == Seen(NoResponse)

\* What one exchange of an API request can come to.
RequestExchanges ==
    {Response(s, b) : s \in Statuses, b \in Bodies} \cup {Failure(e) : e \in NetErrors}

\* ------------------------------------------------------- login response bodies
SessionKeys == {"valid", "validity", "sid", "csrf"}
Descriptor(keys, valid, val, sid, csrf) ==
    [json |-> TRUE, session |-> TRUE, keys |-> keys, valid |-> valid,
     validity |-> val, sid |-> sid, csrf |-> csrf]
Unparseable ==
    [json |-> FALSE, session |-> FALSE, keys |-> {}, valid |-> FALSE,
     validity |-> 0, sid |-> "", csrf |-> ""]
NoSessionKey == [Unparseable EXCEPT !.json = TRUE]
LoginBodies ==
    { Descriptor(SessionKeys, TRUE, 300, "s1", "c1"),
      Descriptor(SessionKeys, TRUE, 600, "s2", "c2"),
      Descriptor(SessionKeys, TRUE, 300, "", "c1"),
      Descriptor(SessionKeys, TRUE, 300, "s1", ""),
      Descriptor(SessionKeys \ {"sid"}, TRUE, 300, "", "c2"),
      Descriptor(SessionKeys \ {"csrf"}, TRUE, 600, "s2", ""),
      Descriptor(SessionKeys \ {"validity"}, TRUE, 0, "s1", "c1"),
      Descriptor(SessionKeys, TRUE, -1, "", ""),
      Descriptor(SessionKeys, FALSE, 0, "", ""),
      NoSessionKey,
      Unparseable }
\* What one exchange of the login POST can come to.
LoginExchanges ==
    {Response(200, b) : b \in LoginBodies}
    \cup {Response(s, b) : s \in {401, 503}, b \in {NoSessionKey, Unparseable}}
    \cup {Failure(e) : e \in NetErrors}

\* The requests the caller issues: with and without is_binary.
Requests ==
    { [method |-> "GET", endpoint |-> "stats", is_binary |-> FALSE],
      [method |-> "POST", endpoint |-> "teleporter", is_binary |-> TRUE] }
\* exit(): self.delete("auth")
LogoutRequest == [method |-> "DELETE", endpoint |-> "auth", is_binary |-> FALSE]
NoRequest == [method |-> "none", endpoint |-> "none", is_binary |-> FALSE]

\* ------------------------------------------------------------------- state
VARIABLES
    base_input,      \* the base_url argument of __init__
    base_url,        \* self.base_url
    target,          \* the url local of _do_call
    max_retries,     \* self.max_retries
    retry_delay,     \* self.retry_delay
    session_id,      \* self.session_id
    csrf_token,      \* self.csrf_token
    validity,        \* self.validity
    pool_open,       \* the transport holds connections
    pc,              \* where the running call stands
    op,              \* the public operation running (or last run)
    ret,             \* where the running _authenticate returns to
    req,             \* the arguments of the running _do_call
    hadSession,      \* a live Session was stored when op began
    headers,         \* the headers local of _do_call
    sent,            \* the session.request calls of the running op
    got,             \* the statuses session.request returned to the running op
    attempt,         \* the loop variable of _authenticate
    last_exception,  \* the last_exception local of _authenticate
    attempts,        \* session.post calls of the running _authenticate
    sleeps,          \* time.sleep calls of the running _authenticate
    authRuns,        \* _authenticate calls of the running op
    authOutcome,     \* how the latest _authenticate ended
    sending,         \* which call the transport is carrying
    retries,         \* Retry.total left for that call
    wireLast,        \* the latest exchange on the wire
    resp,            \* what the transport handed back
    result,          \* what op gave its caller
    closes,          \* exit() calls in a row, up to the end of the operation after them
    callers          \* per thread sharing the client: where it is in _do_call, its locals

cfgVars == <<base_input, base_url, target, max_retries, retry_delay>>
sessVars == <<session_id, csrf_token, validity>>
runVars == <<attempt, last_exception, attempts, sleeps, authOutcome>>
netVars == <<sending, retries, wireLast, resp>>
callVars == <<op, req, hadSession, headers, sent>>
vars == <<base_input, base_url, target, max_retries, retry_delay, session_id,
          csrf_token, validity, pool_open, pc, op, ret, req, hadSession, headers,
          sent, got, attempt, last_exception, attempts, sleeps, authRuns,
          authOutcome,
          sending, retries, wireLast, resp, result, closes, callers>>

\* The threads that may share one client, and a thread that is not in a call.
Callers == {1, 2}
NoLogin == [ok |-> FALSE, sid |-> None, csrf |-> None, val |-> None, exc |-> NoExc]
NoCaller ==
    [pc |-> "out", phase |-> "none", ret |-> "none", attempt |-> 0,
     headers |-> <<None, None>>, login |-> NoLogin, runs |-> 0, sent |-> <<>>,
     got |-> <<>>, result |-> "none"]

NoResult == [kind |-> "none", value |-> <<>>]
Returned(v) == [kind |-> "returned", value |-> v]
Raised(e) == [kind |-> "raised", value |-> <<"exc", e>>]

\* The state before __init__ runs, for a given base_url argument.
InitWith(inputs) ==
    /\ base_input \in inputs
    /\ base_url = <<>>
    /\ target = <<>>
    /\ max_retries \in 0..MaxRetries
    /\ retry_delay \in 1..MaxDelay
    /\ session_id = None
    /\ csrf_token = None
    /\ validity = None
    /\ pool_open = FALSE
    /\ pc = "new"
    /\ op = "none"
    /\ ret = "none"
    /\ req = NoRequest
    /\ hadSession = FALSE
    /\ headers = <<None, None>>
    /\ sent = <<>>
    /\ got = <<>>
    /\ attempt = 0
    /\ last_exception = NoExc
    /\ attempts = 0
    /\ sleeps = <<>>
    /\ authRuns = 0
    /\ authOutcome = "none"
    /\ sending = "none"
    /\ retries = 0
    /\ wireLast = NoExchange
    /\ resp = NoResponse
    /\ result = NoResult
    /\ closes = 0
    /\ callers = [t \in Callers |-> NoCaller]

Init == InitWith({PlainBase})

\* ------------------------------------------------------- pieces of the code
\* A live Session is stored: _get_headers does not authenticate.
LiveSession(sid, csrf) == ~Falsy(sid) /\ ~Falsy(csrf)

\* No _authenticate is running: its locals do not exist.
NoAuthLocals ==
    /\ attempt' = 0
    /\ last_exception' = NoExc
    /\ attempts' = 0
    /\ sleeps' = <<>>

\* No call is on the wire.
NoSend ==
    /\ sending' = "none"
    /\ retries' = 0
    /\ wireLast' = NoExchange
    /\ resp' = NoResponse

\* _authenticate is entered (returning to r): its locals are fresh.
EnterAuth(r, runsBefore) ==
    /\ pc' = "auth"
    /\ ret' = r
    /\ attempt' = 1
    /\ last_exception' = NoExc
    /\ attempts' = 0
    /\ sleeps' = <<>>
    /\ authOutcome' = "running"
    /\ authRuns' = runsBefore + 1

\* One record of the wire log: what session.request was called with.
Sent(r, url, h) == [req |-> r, url |-> url, sid |-> h[1], csrf |-> h[2]]

\* Faulty variant: the headers are the ones built before _authenticate ran.
StartSend_BeforeLogin(kind, r, url, h, log) ==
    /\ pc' = "wire"
    /\ headers' = headers
    /\ sent' = Append(log, Sent(r, url, headers))
    /\ sending' = kind
    /\ retries' = max_retries
    /\ wireLast' = NoExchange
    /\ resp' = NoResponse

\* Faulty variant: the resend reuses the headers local of the first send.
StartSend_KeptHeaders(kind, r, url, h, log) ==
    /\ pc' = "wire"
    /\ headers' = IF kind = "resend" THEN headers ELSE h
    /\ sent' = Append(log, Sent(r, url, IF kind = "resend" THEN headers ELSE h))
    /\ sending' = kind
    /\ retries' = max_retries
    /\ wireLast' = NoExchange
    /\ resp' = NoResponse

\* _do_call calls self.session.request(method, url, headers=headers, ...).
StartSend(kind, r, url, h, log) ==
    /\ pc' = "wire"
    /\ headers' = h
    /\ sent' = Append(log, Sent(r, url, h))
    /\ sending' = kind
    /\ retries' = max_retries
    /\ wireLast' = NoExchange
    /\ resp' = NoResponse

\* Faulty variant: the Session is cleared at the end of the try block, not in finally.
ExitFinally_OnSuccessOnly(res) ==
    /\ result' = Returned(IF res.kind = "raised"
                          THEN <<"error", res.value>> ELSE res.value)
    /\ session_id' = IF res.kind = "raised" THEN session_id ELSE None
    /\ csrf_token' = IF res.kind = "raised" THEN csrf_token ELSE None
    /\ validity' = IF res.kind = "raised" THEN validity ELSE None
    /\ pool_open' = FALSE
    /\ closes' = closes + 1

\* Faulty variant: only the Session that was stored when exit() began is cleared.
ExitFinally_IfHadSession(res) ==
    /\ result' = Returned(IF res.kind = "raised"
                          THEN <<"error", res.value>> ELSE res.value)
    /\ session_id' = IF hadSession THEN None ELSE session_id
    /\ csrf_token' = IF hadSession THEN None ELSE csrf_token
    /\ validity' = IF hadSession THEN None ELSE validity
    /\ pool_open' = FALSE
    /\ closes' = closes + 1

\* exit() from its except clause on: the error is captured, the Session is
\* cleared and the transport closed whatever delete("auth") came to.
ExitFinally(res) ==
    /\ result' = Returned(IF res.kind = "raised"
                          THEN <<"error", res.value>> ELSE res.value)
    /\ session_id' = None
    /\ csrf_token' = None
    /\ validity' = None
    /\ pool_open' = FALSE
    /\ closes' = closes + 1

\* The public operation o ends with res (a value or an exception); used says
\* whether the step that ended it exchanged with the server.
FinishWith(o, res, used) ==
    /\ pc' = IF o = "init" /\ res.kind = "raised" THEN "failed" ELSE "idle"
    /\ IF o = "exit"
       THEN ExitFinally(res)
       ELSE /\ result' = res
            /\ closes' = 0
            /\ pool_open' = (used \/ pool_open)
            /\ UNCHANGED <<session_id, csrf_token, validity>>
Finish(o, res) == FinishWith(o, res, FALSE)
FinishOnWire(o, res) == FinishWith(o, res, TRUE)

\* The except clauses of _do_call: a requests exception is raised anew as a
\* plain Exception; anything else passes through.
WrapRequestExc(e) ==
    CASE e = "ConnectionError" -> "Exception:Connection error"
      [] e = "Timeout" -> "Exception:Request timed out"
      [] e \in {"RetryError", "JSONDecodeError", "HTTPError"} -> "Exception:Request error"
      [] OTHER -> e

\* Faulty variant: a failed re-authentication is swallowed and the 401 goes on
\* to the 4xx rule.
AuthFailure_FallsThrough(r, e) ==
    IF r \in {"reauth", "hdr2"}
    THEN Returned(<<"json", HttpErrorMapping(401)>>)
    ELSE Raised(e)

\* What the exception e of _authenticate comes to for the caller, by the call
\* site r: the calls after a 401 are inside the try of _do_call, whose except
\* clauses raise it anew; the other calls let it pass.
AuthFailure(r, e) ==
    Raised(IF r \in {"reauth", "hdr2"} THEN WrapRequestExc(e) ELSE e)

\* urllib3's Retry: an exchange that failed below HTTP, or whose status is in
\* the forcelist, is tried again while Retry.total lasts.
Retryable(x) == x.exc # NoExc \/ x.status \in StatusForcelist
\* What the transport hands back once it retries no more: the response, the
\* failure, or RetryError for a forcelist status (raise_on_status).
Deliver(x) ==
    IF x.exc = NoExc /\ x.status \in StatusForcelist THEN Failure("RetryError") ELSE x

\* Faulty variant: `while response.status_code == 401`, every 401 re-authenticates.
Reauthenticates_Every(kind, r) == r.status = 401

\* `if response.status_code == 401`, which only the first response reaches:
\* the response r of the send `kind` makes _do_call re-authenticate.
Reauthenticates(kind, r) == kind = "first" /\ r.status = 401

\* Faulty variant: the blank-body test comes before the is_binary test.
Normalize_BlankFirst(r, is_binary) ==
    IF 400 <= r.status /\ r.status < 500
    THEN IF Parseable(r.body)
         THEN Returned(<<"json", ParseJson(r.body)>>)
         ELSE Returned(<<"json", HttpErrorMapping(r.status)>>)
    ELSE IF r.status >= 400
    THEN Raised(WrapRequestExc("HTTPError"))
    ELSE IF Strip(r.body) = <<>>
    THEN Returned(<<"json", EmptyMapping>>)
    ELSE IF is_binary
    THEN Returned(<<"bytes", r.body>>)
    ELSE IF Parseable(r.body)
    THEN Returned(<<"json", ParseJson(r.body)>>)
    ELSE Returned(<<"text", r.body>>)

\* _do_call from "Handle 4xx responses gracefully" on.
Normalize(r, is_binary) ==
    IF 400 <= r.status /\ r.status < 500
    THEN IF Parseable(r.body)
         THEN Returned(<<"json", ParseJson(r.body)>>)
         ELSE Returned(<<"json", HttpErrorMapping(r.status)>>)
    ELSE IF r.status >= 400
    THEN Raised(WrapRequestExc("HTTPError"))
    ELSE IF is_binary
    THEN Returned(<<"bytes", r.body>>)
    ELSE IF Strip(r.body) = <<>>
    THEN Returned(<<"json", EmptyMapping>>)
    ELSE IF Parseable(r.body)
    THEN Returned(<<"json", ParseJson(r.body)>>)
    ELSE Returned(<<"text", r.body>>)

\* One pass of the try block of _authenticate on the login response r, from
\* the stored Session (sid, csrf, val): whether it returned, what is stored
\* afterwards, and the failure captured.  A missing key raises KeyError at the
\* line that reads it, after the assignments above that line.
LoginFailed(sid, csrf, val, e) ==
    [ok |-> FALSE, sid |-> sid, csrf |-> csrf, val |-> val, exc |-> e]

\* Faulty variant: sid and csrf are read with .get(key, ""), a missing one is no error.
LoginOutcome_FieldDefaults(r, sid, csrf, val) ==
    LET b == r.body IN
    IF r.exc # NoExc THEN LoginFailed(sid, csrf, val, r.exc)
    ELSE IF r.status # 200
    THEN LoginFailed(sid, csrf, val,
                     IF b.json THEN "Exception:Authentication failed: message"
                     ELSE "Exception:Authentication failed: HTTP status")
    ELSE IF ~b.json THEN LoginFailed(sid, csrf, val, "JSONDecodeError")
    ELSE IF ~b.session
    THEN LoginFailed(sid, csrf, val, "Exception:Invalid session response")
    ELSE IF "valid" \notin b.keys THEN LoginFailed(sid, csrf, val, "KeyError")
    ELSE IF ~b.valid
    THEN LoginFailed(sid, csrf, val, "Exception:Invalid session response")
    ELSE IF "validity" \notin b.keys THEN LoginFailed(sid, csrf, val, "KeyError")
    ELSE IF ~(b.validity > 0)
    THEN LoginFailed(sid, csrf, val, "Exception:Invalid session response")
    ELSE [ok |-> TRUE, sid |-> Some(b.sid), csrf |-> Some(b.csrf),
          val |-> Some(b.validity), exc |-> NoExc]

\* _authenticate, the try block (see above LoginFailed).
LoginOutcome(r, sid, csrf, val) ==
    LET b == r.body IN
    IF r.exc # NoExc THEN LoginFailed(sid, csrf, val, r.exc)
    ELSE IF r.status # 200
    THEN LoginFailed(sid, csrf, val,
                     IF b.json THEN "Exception:Authentication failed: message"
                     ELSE "Exception:Authentication failed: HTTP status")
    ELSE IF ~b.json THEN LoginFailed(sid, csrf, val, "JSONDecodeError")
    ELSE IF ~b.session
    THEN LoginFailed(sid, csrf, val, "Exception:Invalid session response")
    ELSE IF "valid" \notin b.keys THEN LoginFailed(sid, csrf, val, "KeyError")
    ELSE IF ~b.valid
    THEN LoginFailed(sid, csrf, val, "Exception:Invalid session response")
    ELSE IF "validity" \notin b.keys THEN LoginFailed(sid, csrf, val, "KeyError")
    ELSE IF ~(b.validity > 0)
    THEN LoginFailed(sid, csrf, val, "Exception:Invalid session response")
    ELSE IF "sid" \notin b.keys THEN LoginFailed(sid, csrf, val, "KeyError")
    ELSE IF "csrf" \notin b.keys THEN LoginFailed(Some(b.sid), csrf, val, "KeyError")
    ELSE [ok |-> TRUE, sid |-> Some(b.sid), csrf |-> Some(b.csrf),
          val |-> Some(b.validity), exc |-> NoExc]

\* Faulty variant: 2 ** attempt.
BackoffDelay_NextPower(k) == retry_delay * Pow2(k)
\* Faulty variant: range(1, self.max_retries).
InRange_OneShort(k) == 1 <= k /\ k < max_retries

\* The backoff of _authenticate after the failed attempt k.
BackoffDelay(k) == retry_delay * Pow2(k - 1)
\* `if attempt < self.max_retries`: a sleep follows the failed attempt k.
SleepsAfter(k) == k < max_retries
\* `for attempt in range(1, self.max_retries + 1)`: attempt k is made.
InRange(k) == 1 <= k /\ k <= max_retries

\* ----------------------------------------------------------------- actions
\* __init__: the fields are set, then self._authenticate().
Construct ==
    /\ pc = "new"
    /\ base_url' = NormalizeBaseUrl(base_input)
    /\ session_id' = None
    /\ csrf_token' = None
    /\ validity' = None
    /\ op' = "init"
    /\ EnterAuth("init", 0)
    /\ UNCHANGED <<base_input, target, max_retries, retry_delay, pool_open, req,
                   hadSession, headers, sent, got, netVars, result, closes>>
    /\ UNCHANGED callers

\* _authenticate, loop head: the next attempt posts the password.
AuthAttempt ==
    /\ pc = "auth"
    /\ InRange(attempt)
    /\ pc' = "wire"
    /\ attempts' = attempts + 1
    /\ sending' = "login"
    /\ retries' = max_retries
    /\ wireLast' = NoExchange
    /\ resp' = NoResponse
    /\ UNCHANGED <<cfgVars, sessVars, pool_open, callVars, got, ret, attempt,
                   last_exception, sleeps, authOutcome, authRuns, result, closes>>
    /\ UNCHANGED callers

\* _authenticate, after the loop: raise last_exception (raising None is a
\* TypeError).  Inside the try of _do_call a requests exception is wrapped.
AuthExhausted ==
    /\ pc = "auth"
    /\ ~InRange(attempt)
    /\ authOutcome' = "raised"
    /\ LET e == IF last_exception = NoExc THEN "TypeError" ELSE last_exception
       IN  Finish(op, AuthFailure(ret, e))
    /\ UNCHANGED <<cfgVars, callVars, got, ret, attempt, last_exception, attempts,
                   sleeps, authRuns, netVars>>
    /\ UNCHANGED callers

\* The exchanges the server and the network can answer the call on the wire with.
Exchanges == IF sending = "login" THEN LoginExchanges ELSE RequestExchanges
\* The transport tries the call again after the exchange x.
Retried(x) == Retryable(x) /\ retries > 0

\* One exchange on the wire below session.post / session.request, after which
\* the transport tries again.
TransportRetry ==
    /\ pc = "wire"
    /\ \E x \in Exchanges :
         /\ Retried(x)
         /\ wireLast' = Seen(x)
    /\ retries' = retries - 1
    /\ pool_open' = TRUE
    /\ UNCHANGED <<cfgVars, sessVars, callVars, got, pc, ret, runVars, authRuns, sending,
                   resp, result, closes>>
    /\ UNCHANGED callers

\* _authenticate, the loop body from the last exchange of session.post on: the
\* response is read and the Session stored, or the failure is captured and the
\* backoff slept.
AuthResponse ==
    /\ pc = "wire"
    /\ sending = "login"
    /\ \E x \in Exchanges :
         /\ ~Retried(x)
         /\ wireLast' = Seen(x)
         /\ resp' = Deliver(x)
         /\ LET o == LoginOutcome(Deliver(x), session_id, csrf_token, validity) IN
              /\ session_id' = o.sid
              /\ csrf_token' = o.csrf
              /\ validity' = o.val
              /\ IF o.ok
                 THEN /\ pc' = "auth_ok"
                      /\ authOutcome' = "ok"
                      /\ UNCHANGED <<attempt, last_exception, sleeps>>
                 ELSE /\ pc' = "auth"
                      /\ last_exception' = o.exc
                      /\ sleeps' = IF SleepsAfter(attempt)
                                   THEN Append(sleeps, BackoffDelay(attempt))
                                   ELSE sleeps
                      /\ attempt' = attempt + 1
                      /\ UNCHANGED authOutcome
    /\ pool_open' = TRUE
    /\ UNCHANGED <<cfgVars, callVars, got, ret, attempts, authRuns, sending, retries,
                   result, closes>>
    /\ UNCHANGED callers

\* _authenticate returned: its caller goes on.
AuthReturn ==
    /\ pc = "auth_ok"
    /\ LET h == <<session_id, csrf_token>> IN
       \/ /\ ret = "init"
          /\ Finish(op, Returned(<<"client">>))
          /\ NoAuthLocals
          /\ UNCHANGED <<headers, sent, netVars, authOutcome, authRuns, ret>>
       \/ /\ ret = "hdrop"
          /\ Finish(op, Returned(<<"headers", h>>))
          /\ NoAuthLocals
          /\ UNCHANGED <<headers, sent, netVars, authOutcome, authRuns, ret>>
       \/ /\ ret = "hdr1"
          /\ StartSend("first", req, target, h, sent)
          /\ NoAuthLocals
          /\ UNCHANGED <<sessVars, pool_open, result, closes, authOutcome, authRuns, ret>>
       \/ /\ ret = "hdr2" \/ (ret = "reauth" /\ LiveSession(session_id, csrf_token))
          /\ StartSend("resend", req, target, h, sent)
          /\ NoAuthLocals
          /\ UNCHANGED <<sessVars, pool_open, result, closes, authOutcome, authRuns, ret>>
       \/ /\ ret = "reauth"
          /\ ~LiveSession(session_id, csrf_token)
          /\ EnterAuth("hdr2", authRuns)
          /\ UNCHANGED <<sessVars, pool_open, result, closes, headers, sent, netVars>>
    /\ UNCHANGED <<cfgVars, op, req, hadSession, got>>
    /\ UNCHANGED callers

\* _do_call from the last exchange of session.request on: an exception is
\* wrapped and raised, a first 401 re-authenticates, any other response is
\* normalized.
DoCallResponse ==
    /\ pc = "wire"
    /\ sending \in {"first", "resend"}
    /\ \E x \in Exchanges :
         /\ ~Retried(x)
         /\ wireLast' = Seen(x)
         /\ resp' = Deliver(x)
         /\ LET r == Deliver(x) IN
            \/ /\ r.exc # NoExc
               /\ FinishOnWire(op, Raised(WrapRequestExc(r.exc)))
               /\ UNCHANGED <<got, ret, runVars, authRuns>>
            \/ /\ r.exc = NoExc
               /\ Reauthenticates(sending, r)
               /\ got' = Append(got, r.status)
               /\ EnterAuth("reauth", authRuns)
               /\ pool_open' = TRUE
               /\ UNCHANGED <<sessVars, result, closes>>
            \/ /\ r.exc = NoExc
               /\ ~Reauthenticates(sending, r)
               /\ got' = Append(got, r.status)
               /\ FinishOnWire(op, Normalize(r, req.is_binary))
               /\ UNCHANGED <<ret, runVars, authRuns>>
    /\ UNCHANGED <<cfgVars, callVars, sending, retries>>
    /\ UNCHANGED callers

\* _do_call up to the first send, for the public operation o with arguments r:
\* the url is built, _get_headers returns the stored pair or authenticates.
BeginCall(o, r) ==
    /\ pc = "idle"
    /\ op' = o
    /\ req' = r
    /\ hadSession' = LiveSession(session_id, csrf_token)
    /\ target' = TargetUrl(base_url, r.endpoint)
    /\ result' = NoResult
    /\ got' = <<>>
    /\ closes' = closes
    /\ IF LiveSession(session_id, csrf_token)
       THEN /\ StartSend("first", r, TargetUrl(base_url, r.endpoint),
                         <<session_id, csrf_token>>, <<>>)
            /\ authRuns' = 0
            /\ NoAuthLocals
            /\ authOutcome' = "none"
            /\ ret' = "none"
       ELSE /\ EnterAuth("hdr1", 0)
            /\ sent' = <<>>
            /\ headers' = <<None, None>>
            /\ NoSend
    /\ UNCHANGED <<base_input, base_url, max_retries, retry_delay, sessVars, pool_open>>
    /\ UNCHANGED callers

\* get / post: request().
Request == \E r \in Requests : BeginCall("request", r)

\* exit(): delete("auth") inside the try.
Exit ==
    /\ closes < MaxCloses
    /\ BeginCall("exit", LogoutRequest)

\* _get_headers called on its own.
GetHeaders ==
    /\ pc = "idle"
    /\ op' = "headers"
    /\ req' = NoRequest
    /\ hadSession' = LiveSession(session_id, csrf_token)
    /\ sent' = <<>>
    /\ got' = <<>>
    /\ IF LiveSession(session_id, csrf_token)
       THEN /\ Finish("headers", Returned(<<"headers", <<session_id, csrf_token>>>>))
            /\ authRuns' = 0
            /\ NoAuthLocals
            /\ authOutcome' = "none"
            /\ ret' = "none"
       ELSE /\ EnterAuth("hdrop", 0)
            /\ result' = NoResult
            /\ closes' = closes
            /\ UNCHANGED <<sessVars, pool_open>>
    /\ headers' = <<None, None>>
    /\ NoSend
    /\ UNCHANGED cfgVars
    /\ UNCHANGED callers

Next ==
    \/ Construct
    \/ AuthAttempt
    \/ AuthExhausted
    \/ TransportRetry
    \/ AuthResponse
    \/ AuthReturn
    \/ DoCallResponse
    \/ Request
    \/ Exit
    \/ GetHeaders

Spec == Init /\ [][Next]_vars

\* ------------------------------------------- the base URL on its own
\* __init__, the base_url line alone.
UrlConstruct ==
    /\ pc = "new"
    /\ base_url' = NormalizeBaseUrl(base_input)
    /\ pc' = "url"
    /\ UNCHANGED <<base_input, target, max_retries, retry_delay, sessVars, pool_open,
                   callVars, got, ret, runVars, authRuns, netVars, result, closes>>
    /\ UNCHANGED callers

\* _do_call, the url line alone.
UrlTarget ==
    /\ pc = "url"
    /\ \E e \in Endpoints : target' = TargetUrl(base_url, e)
    /\ pc' = "target"
    /\ UNCHANGED <<base_input, base_url, max_retries, retry_delay, sessVars, pool_open,
                   callVars, got, ret, runVars, authRuns, netVars, result, closes>>
    /\ UNCHANGED callers

InitUrl == InitWith(BaseInputs)
NextUrl == UrlConstruct \/ UrlTarget
SpecUrl == InitUrl /\ [][NextUrl]_vars

\* ------------------------------------------- two threads sharing one client
\* The client has no lock: threads calling get()/post() on one client run
\* _do_call, _get_headers and _authenticate interleaved, a statement that
\* reads or writes a field of the client being one step.  What session.post /
\* session.request hands back is taken as one step (the transport's own
\* retries are in Spec).
MaxConcRetries == 2

\* Everything but the Session and the threads.
restVars == <<base_input, base_url, target, max_retries, retry_delay, pool_open, pc,
              op, ret, req, hadSession, headers, sent, got, attempt, last_exception,
              attempts, sleeps, authRuns, authOutcome, sending, retries, wireLast,
              resp, result, closes>>

\* Login exchanges of a server that keeps to the protocol: a failure, or a
\* descriptor with every field and non-empty sid and csrf.
ConformingLogins ==
    {x \in LoginExchanges :
        LET o == LoginOutcome(Deliver(x), None, None, None) IN
        IF o.ok THEN o.sid # Some("") /\ o.csrf # Some("") ELSE o.sid = None}

\* A constructed client, its Session either stored by the construction or
\* cleared by an exit(), and no thread in a call yet.
InitConc ==
    /\ base_input = PlainBase
    /\ base_url = NormalizeBaseUrl(PlainBase)
    /\ target = <<>>
    /\ max_retries \in 1..MaxConcRetries
    /\ retry_delay = 1
    /\ \E x \in ConformingLogins :
         LET o == LoginOutcome(Deliver(x), None, None, None) IN
         \/ /\ o.ok
            /\ session_id = o.sid
            /\ csrf_token = o.csrf
            /\ validity = o.val
         \/ /\ session_id = None
            /\ csrf_token = None
            /\ validity = None
    /\ pool_open = TRUE
    /\ pc = "idle"
    /\ op = "none"
    /\ ret = "none"
    /\ req = NoRequest
    /\ hadSession = FALSE
    /\ headers = <<None, None>>
    /\ sent = <<>>
    /\ got = <<>>
    /\ attempt = 0
    /\ last_exception = NoExc
    /\ attempts = 0
    /\ sleeps = <<>>
    /\ authRuns = 0
    /\ authOutcome = "none"
    /\ sending = "none"
    /\ retries = 0
    /\ wireLast = NoExchange
    /\ resp = NoResponse
    /\ result = NoResult
    /\ closes = 0
    /\ callers = [t \in Callers |-> NoCaller]

\* The thread t goes on as the record c.
Goes(t, c) == callers' = [callers EXCEPT ![t] = c]
\* The thread t enters _authenticate, to return to r.
CallerEnterAuth(t, r) ==
    [callers[t] EXCEPT !.pc = "post", !.ret = r, !.attempt = 1,
                       !.runs = callers[t].runs + 1]

\* The thread t calls get()/post(): _do_call up to the call of _get_headers.
CallerBegin(t) ==
    /\ callers[t].pc = "out"
    /\ Goes(t, [NoCaller EXCEPT !.pc = "check", !.phase = "first"])
    /\ UNCHANGED <<sessVars, restVars>>

\* _get_headers, `if not self.session_id or not self.csrf_token`.
CallerCheck(t) ==
    /\ callers[t].pc = "check"
    /\ IF LiveSession(session_id, csrf_token)
       THEN Goes(t, [callers[t] EXCEPT !.pc = "read_sid"])
       ELSE Goes(t, CallerEnterAuth(t, IF callers[t].phase = "first"
                                       THEN "hdr1" ELSE "hdr2"))
    /\ UNCHANGED <<sessVars, restVars>>

\* _get_headers, "X-FTL-SID": self.session_id.
CallerReadSid(t) ==
    /\ callers[t].pc = "read_sid"
    /\ Goes(t, [callers[t] EXCEPT !.pc = "read_csrf",
                                  !.headers = <<session_id, None>>])
    /\ UNCHANGED <<sessVars, restVars>>

\* _get_headers, "X-FTL-CSRF": self.csrf_token, and the return.
CallerReadCsrf(t) ==
    /\ callers[t].pc = "read_csrf"
    /\ Goes(t, [callers[t] EXCEPT !.pc = "send",
                                  !.headers = <<callers[t].headers[1], csrf_token>>])
    /\ UNCHANGED <<sessVars, restVars>>

\* _do_call, self.session.request(...) with the headers built, and what the
\* response comes to: an exception, the re-authentication, or a result.
CallerSend(t) ==
    /\ callers[t].pc = "send"
    /\ \E x \in RequestExchanges :
         LET r == Deliver(x)
             c == [callers[t] EXCEPT !.sent = Append(callers[t].sent, callers[t].headers)]
         IN  IF r.exc # NoExc
             THEN Goes(t, [c EXCEPT !.pc = "done", !.result = "raised"])
             ELSE IF Reauthenticates(c.phase, r)
             THEN Goes(t, [CallerEnterAuth(t, "reauth") EXCEPT
                               !.sent = c.sent, !.got = Append(c.got, r.status)])
             ELSE Goes(t, [c EXCEPT !.pc = "done",
                                    !.result = Normalize(r, FALSE).kind])
    /\ UNCHANGED <<sessVars, restVars>>

\* _authenticate, one attempt up to the test of the response: the thread goes
\* on to store the Session, or the attempt has failed.
CallerLogin(t) ==
    /\ callers[t].pc = "post"
    /\ InRange(callers[t].attempt)
    /\ \E x \in ConformingLogins :
         LET o == LoginOutcome(Deliver(x), session_id, csrf_token, validity) IN
         IF o.ok
         THEN Goes(t, [callers[t] EXCEPT !.pc = "write_sid", !.login = o])
         ELSE Goes(t, [callers[t] EXCEPT !.attempt = callers[t].attempt + 1])
    /\ UNCHANGED <<sessVars, restVars>>

\* _authenticate, self.session_id = data["session"]["sid"].
CallerWriteSid(t) ==
    /\ callers[t].pc = "write_sid"
    /\ session_id' = callers[t].login.sid
    /\ Goes(t, [callers[t] EXCEPT !.pc = "write_csrf"])
    /\ UNCHANGED <<csrf_token, validity, restVars>>

\* _authenticate, self.csrf_token = data["session"]["csrf"].
CallerWriteCsrf(t) ==
    /\ callers[t].pc = "write_csrf"
    /\ csrf_token' = callers[t].login.csrf
    /\ Goes(t, [callers[t] EXCEPT !.pc = "write_validity"])
    /\ UNCHANGED <<session_id, validity, restVars>>

\* _authenticate, self.validity = data["session"]["validity"] and the return:
\* to _get_headers, or to _do_call which calls _get_headers for the resend.
CallerWriteValidity(t) ==
    /\ callers[t].pc = "write_validity"
    /\ validity' = callers[t].login.val
    /\ Goes(t, [callers[t] EXCEPT
                  !.pc = IF callers[t].ret = "reauth" THEN "check" ELSE "read_sid",
                  !.phase = IF callers[t].ret = "reauth" THEN "resend" ELSE callers[t].phase,
                  !.login = NoLogin, !.attempt = 0])
    /\ UNCHANGED <<session_id, csrf_token, restVars>>

\* _authenticate, after the loop: the exception leaves _do_call.
CallerAuthExhausted(t) ==
    /\ callers[t].pc = "post"
    /\ ~InRange(callers[t].attempt)
    /\ Goes(t, [callers[t] EXCEPT !.pc = "done", !.result = "raised"])
    /\ UNCHANGED <<sessVars, restVars>>

NextConc ==
    \E t \in Callers :
        \/ CallerBegin(t)
        \/ CallerCheck(t)
        \/ CallerReadSid(t)
        \/ CallerReadCsrf(t)
        \/ CallerSend(t)
        \/ CallerLogin(t)
        \/ CallerWriteSid(t)
        \/ CallerWriteCsrf(t)
        \/ CallerWriteValidity(t)
        \/ CallerAuthExhausted(t)

SpecConc == InitConc /\ [][NextConc]_vars

\* ------------------------------------------------------------------ claims
\* A public operation has ended and nothing runs.
Ended(o) == pc = "idle" /\ op = o
\* The last thing the running (or ended) op did was a send of _do_call, and
\* the transport handed back the response resp.
FinalResponse == sending \in {"first", "resend"} /\ resp.exc = NoExc
\* What the 4xx rule gives for a status and a body, said without the code's
\* helpers: the one JSON document of the body, or the error mapping.
AllBlank(b) == \A i \in 1..Len(b) : b[i] = " "
OneDocument(b) ==
    \E i \in 1..Len(b) : b[i] = "J" /\ \A j \in 1..Len(b) : j # i => b[j] = " "
ClientErrorValue(status, b) ==
    IF OneDocument(b) THEN <<"json", <<"parsed", <<"J">>>>>>
    ELSE <<"json", <<"error", <<"HTTP", status>>>>>>

\* C1 (as claimed): a request() issued while a Session is stored whose first
\* response is 401 runs authenticate() exactly once and sends the request
\* exactly once more; a second 401 is returned through the 4xx rule.
C1_Original ==
    (Ended("request") /\ hadSession /\ got # <<>> /\ got[1] = 401)
        => /\ authRuns = 1
           /\ Len(sent) = 2
           /\ (Len(got) = 2 /\ got[2] = 401
                 => result = Returned(ClientErrorValue(401, resp.body)))

\* C1 (amended): a request() issued while a Session is stored whose first
\* response is 401 runs authenticate() once, and once more (from headers())
\* only when that login left an empty sid or csrf stored; it sends the request
\* once more exactly when no authenticate() raised, and otherwise raises
\* without a resend; never a third send; a second 401 is returned through the
\* 4xx rule.
C1_ReauthOnce ==
    /\ Len(sent) <= 2
    /\ Len(got) <= 2
    /\ (op = "request" /\ hadSession) => authRuns <= 2
    /\ (op = "request" /\ hadSession /\ pc = "auth" /\ attempts = 0 /\ authRuns = 2)
         => ~LiveSession(session_id, csrf_token)
    /\ (Ended("request") /\ hadSession /\ got # <<>> /\ got[1] = 401)
         => /\ authRuns >= 1
            /\ (authOutcome = "ok" <=> Len(sent) = 2)
            /\ (authOutcome = "raised" <=> Len(sent) = 1)
            /\ authOutcome = "raised" => result.kind = "raised" /\ Len(got) = 1
            /\ (Len(got) = 2 /\ got[2] = 401
                  => result = Returned(ClientErrorValue(401, resp.body)))
C1_Witness ==
    /\ Ended("request")
    /\ hadSession
    /\ got = <<401, 401>>
    /\ authRuns = 1
    /\ Len(sent) = 2
    /\ result.kind = "returned"

\* C2: when every login response of the construction is a failure, exactly
\* max_retries login attempts are made, the construction raises and gives the
\* caller no client; a construction that gave a client ended on a login
\* response with valid true and validity > 0.
C2_ConstructionFails ==
    /\ op = "init" => attempts <= max_retries
    /\ pc = "failed"
         => /\ op = "init"
            /\ attempts = max_retries
            /\ result.kind = "raised"
            /\ authOutcome = "raised"
    /\ Ended("init")
         => /\ result = Returned(<<"client">>)
            /\ resp.exc = NoExc /\ resp.status = 200
            /\ resp.body.valid /\ resp.body.validity > 0
C2_Witness == pc = "failed" /\ max_retries = 3 /\ attempts = 3

\* C3: in an authenticate() run whose attempts all fail, the sleep after the
\* attempt k is retry_delay * 2^(k-1) for k in 1..max_retries-1: max_retries-1
\* sleeps, none after the last attempt.
C3_BackoffSchedule ==
    authOutcome = "raised"
        => /\ Len(sleeps) = (IF max_retries = 0 THEN 0 ELSE max_retries - 1)
           /\ \A k \in 1..Len(sleeps) :
                sleeps[k] = (IF k = 1 THEN retry_delay ELSE 2 * sleeps[k - 1])
C3_Witness ==
    /\ authOutcome = "raised"
    /\ max_retries = 3
    /\ retry_delay = 2
    /\ sleeps = <<2, 4>>

\* C4 (as claimed): whenever the server's final answer to a request has a
\* status in [400,500) (a 401 only as the second response), request() raises
\* nothing and returns the parsed body or the "HTTP <code>: <reason>" mapping.
C4_ClientErrorsReturned ==
    (/\ Ended("request")
     /\ sending \in {"first", "resend"}
     /\ wireLast.exc = NoExc
     /\ 400 <= wireLast.status /\ wireLast.status < 500)
        => /\ result.kind = "returned"
           /\ resp.exc = NoExc
           /\ result.value = ClientErrorValue(wireLast.status, resp.body)

\* C5: exit() raises nothing, and when it returns the Session (sid, csrf,
\* validity) is absent and the transport released, whatever delete("auth") and
\* a lazy login before it came to.
C5_ExitAlwaysClears ==
    Ended("exit")
        => /\ result.kind = "returned"
           /\ session_id = None /\ csrf_token = None /\ validity = None
           /\ ~pool_open
C5_Witness ==
    /\ Ended("exit")
    /\ result.value[1] = "error"
    /\ authOutcome = "raised"
    /\ ~hadSession

\* C6: exit() twice in a row: neither call raises, and the Session is absent
\* after the first and again after the second, whatever the server did
\* during either call.
C6_ExitTwice ==
    /\ (pc = "idle" /\ closes >= 1)
         => op = "exit" /\ result.kind = "returned"
    /\ (pc = "idle" /\ closes >= 2)
         => session_id = None /\ csrf_token = None /\ validity = None
    /\ (op = "exit" /\ closes >= 1 /\ pc # "idle") => ~hadSession
C6_Witness ==
    /\ pc = "idle"
    /\ closes = 2
    /\ authOutcome = "ok"
    /\ got # <<>>

\* C7 (as claimed): an exit() begun with no live Session performs no login
\* exchange.
C7_NoLoginWithoutSession ==
    (op = "exit" /\ ~hadSession) => authRuns = 0 /\ attempts = 0

\* C8 (as claimed): every base URL naming the host, with or without trailing
\* slashes and with or without a trailing "api" segment, is stored as the host
\* followed by exactly one API root, and gives the same target per endpoint.
SameHostInputs ==
    {u \in BaseInputs :
        \E n \in 0..MaxTail :
            \/ u = <<Host>> \o [i \in 1..n |-> Slash]
            \/ u = <<Host, Slash, ApiSeg>> \o [i \in 1..n |-> Slash]}
C8_OneApiRoot ==
    (pc \in {"url", "target"} /\ base_input \in SameHostInputs)
        => /\ base_url = <<Host, Slash, ApiSeg, Slash>>
           /\ pc = "target" => target[Len(target) - 1] = Slash
                               /\ Len(target) = 5

\* C9 (as claimed): headers() authenticates exactly when no live Session is
\* stored, and the pair it returns is the stored (sid, csrf), both non-empty.
C9_HeadersNonEmpty ==
    (Ended("headers") /\ result.kind = "returned")
        => /\ result.value = <<"headers", <<session_id, csrf_token>>>>
           /\ (authRuns = 0 <=> hadSession)
           /\ authRuns <= 1
           /\ ~Falsy(session_id) /\ ~Falsy(csrf_token)

\* C10: a final 2xx/3xx response is normalized by a fixed precedence: with
\* is_binary the raw body; otherwise a blank body gives the empty mapping, a
\* parsable body its parse, any other body the raw text; request() does not
\* raise.
C10_SuccessPrecedence ==
    (Ended("request") /\ FinalResponse /\ 200 <= resp.status /\ resp.status < 400)
        => result = Returned(
             IF req.is_binary THEN <<"bytes", resp.body>>
             ELSE IF AllBlank(resp.body) THEN <<"json", <<"parsed", <<>>>>>>
             ELSE IF OneDocument(resp.body) THEN <<"json", <<"parsed", <<"J">>>>>>
             ELSE <<"text", resp.body>>)
C10_Witness ==
    /\ Ended("request")
    /\ FinalResponse
    /\ resp.status = 304
    /\ req.is_binary
    /\ resp.body = <<" ">>
    /\ result = Returned(<<"bytes", <<" ">>>>)

\* The exceptions the except clauses of request() raise for a failed request.
RequestFailures ==
    {"Exception:Connection error", "Exception:Request timed out",
     "Exception:Request error"}

\* C11 (as claimed): request() raises a request failure exactly when a send of
\* the request failed below HTTP or the final status is >= 500 once the
\* transport retries no more; then it returns no value, and a status >= 500 is
\* never returned as data.
C11_RaisesExactly ==
    Ended("request")
        => /\ result.kind \in {"raised", "returned"}
           /\ (result.kind = "raised" /\ result.value[2] \in RequestFailures)
                <=> /\ sending \in {"first", "resend"}
                    /\ wireLast.exc # NoExc \/ wireLast.status >= 500
           /\ (sending \in {"first", "resend"} /\ wireLast.exc = NoExc
               /\ wireLast.status >= 500) => result.kind = "raised"

\* C12: after any number of exit() calls the next request() starts with no
\* Session and authenticates lazily before anything is sent; when that login
\* returns, the Session stored is the one of its response, and the request
\* goes out once with that sid and csrf, the client holding that Session.
C12_UsableAfterClose ==
    (op = "request" /\ closes >= 1 /\ pc # "idle")
        => /\ ~hadSession
           /\ authRuns >= 1
           /\ (sent = <<>> /\ pc # "auth_ok") => authOutcome = "running"
           /\ (sent = <<>> /\ pc = "auth_ok")
                => /\ ret = "hdr1"
                   /\ session_id = Some(resp.body.sid)
                   /\ csrf_token = Some(resp.body.csrf)
                   /\ validity = Some(resp.body.validity)
           /\ (pc = "wire" /\ sending = "first")
                => /\ authOutcome = "ok"
                   /\ authRuns = 1
                   /\ Len(sent) = 1
                   /\ sent[1].req = req /\ sent[1].url = target
                   /\ sent[1].sid = session_id /\ sent[1].csrf = csrf_token
                   /\ session_id # None /\ csrf_token # None /\ validity # None
C12_Witness ==
    /\ op = "request"
    /\ closes = 2
    /\ pc = "wire"
    /\ sending = "first"
    /\ sent[1].sid = Some("s2")
    /\ session_id = Some("s2")

\* C13 (as claimed): a 401 on an authenticated request invalidates the stored
\* Session: while the re-authentication it starts has not succeeded no sid and
\* no csrf are stored, and when it fails the client is left with no Session.
C13_InvalidatedOn401 ==
    /\ (op = "request" /\ ret = "reauth" /\ authOutcome = "running")
         => session_id = None /\ csrf_token = None
    /\ (Ended("request") /\ got = <<401>> /\ authOutcome = "raised")
         => session_id = None /\ csrf_token = None /\ validity = None

\* The login bodies the spec counts as successful: a session descriptor with
\* every field, valid true and validity > 0.
SuccessBodies ==
    {b \in LoginBodies :
        b.json /\ b.session /\ b.keys = SessionKeys /\ b.valid /\ b.validity > 0}

\* C14 (as claimed): whatever the server answers, login responses with a
\* missing sid, csrf or validity included, the stored sid, csrf and validity
\* are all absent or all those of one successful login response, and a login
\* attempt that fails leaves the three as they were.
C14_SessionConsistent ==
    /\ \/ <<session_id, csrf_token, validity>> = <<None, None, None>>
       \/ \E b \in SuccessBodies :
            <<session_id, csrf_token, validity>>
                = <<Some(b.sid), Some(b.csrf), Some(b.validity)>>
    /\ (pc = "auth" /\ attempts > 0 /\ hadSession /\ ret = "reauth" /\ authRuns = 1)
         => session_id = headers[1] /\ csrf_token = headers[2]

\* A login attempt of the running _authenticate has just been answered by
\* resp, a 200 with a session descriptor that is valid with validity > 0.
AnsweredValid ==
    /\ pc \in {"auth", "auth_ok"}
    /\ sending = "login"
    /\ attempts > 0
    /\ resp.exc = NoExc /\ resp.status = 200
    /\ resp.body.json /\ resp.body.session
    /\ {"valid", "validity"} \subseteq resp.body.keys
    /\ resp.body.valid /\ resp.body.validity > 0
\* authenticate() has returned on its attempt `attempt`, the first to succeed.
StoppedAtFirstSuccess ==
    /\ pc = "auth_ok"
    /\ authOutcome = "ok"
    /\ InRange(attempt)
    /\ attempts = attempt
    /\ Len(sleeps) = attempt - 1
    /\ session_id = Some(resp.body.sid)
    /\ csrf_token = Some(resp.body.csrf)
    /\ validity = Some(resp.body.validity)

\* C15 (as claimed): the first attempt k answered 200 with valid true and
\* validity > 0 ends authenticate(): k login requests, no sleep after the
\* attempt k, the Session stored is that response's, nothing is raised.
C15_Original == AnsweredValid => StoppedAtFirstSuccess

\* C15: the first attempt k answered 200 with valid true, validity > 0 and
\* both a sid and a csrf field ends authenticate() in that way, and
\* authenticate() returns on no other response; a response with valid true and
\* validity > 0 that lacks sid or csrf is a failed attempt, with KeyError for
\* its cause, after which the next attempt, if any, is made.
C15_StopsAtFirstSuccess ==
    /\ (AnsweredValid /\ {"sid", "csrf"} \subseteq resp.body.keys)
         => StoppedAtFirstSuccess
    /\ pc = "auth_ok"
         => AnsweredValid /\ {"sid", "csrf"} \subseteq resp.body.keys
    /\ (AnsweredValid /\ ~({"sid", "csrf"} \subseteq resp.body.keys))
         => /\ pc = "auth"
            /\ authOutcome = "running"
            /\ last_exception = "KeyError"
            /\ attempt = attempts + 1
            /\ Len(sleeps) = (IF attempts < max_retries THEN attempts ELSE attempts - 1)
C15_Witness ==
    /\ pc = "auth_ok"
    /\ attempt = 3
    /\ attempts = 3
    /\ Len(sleeps) = 2
    /\ session_id = Some("s2")
    /\ validity = Some(600)

\* C16 (as claimed): for every max_retries >= 0, the error authenticate()
\* raises on exhaustion has the cause of its final attempt, never that of an
\* earlier one and never none.
C16_LastCauseRaised ==
    authOutcome = "raised"
        => /\ last_exception # NoExc
           /\ last_exception = LoginOutcome(resp, session_id, csrf_token, validity).exc
           /\ op # "exit"
                => result \in {Raised(last_exception),
                               Raised(WrapRequestExc(last_exception))}

\* What C17 says of a state: a request on the wire carries the sid and csrf
\* stored at that moment, and a second send repeats the arguments of the first.
SentWithStored ==
    /\ (pc = "wire" /\ sending \in {"first", "resend"})
         => /\ sent # <<>>
            /\ sent[Len(sent)].sid = session_id
            /\ sent[Len(sent)].csrf = csrf_token
            /\ sent[Len(sent)].req = req
            /\ sent[Len(sent)].url = target
    /\ Len(sent) = 2
         => /\ sent[2].req = sent[1].req
            /\ sent[2].url = sent[1].url
            /\ got # <<>> /\ got[1] = 401
            /\ authOutcome = "ok"
\* What C17 says of a step: the send that follows the return of the
\* re-authentication carries the sid and csrf of the login response just read.
ResentWithNew ==
    (pc = "auth_ok" /\ ret \in {"reauth", "hdr2"} /\ pc' = "wire")
        => /\ Len(sent') = 2
           /\ sent'[2].sid = Some(resp.body.sid)
           /\ sent'[2].csrf = Some(resp.body.csrf)
           /\ sending' = "resend"

\* C17: the request sent again after a 401 carries the sid and csrf that the
\* re-authentication read from its login response, whatever the headers of the
\* first send were, with the same method, url and arguments; every request on
\* the wire carries the sid and csrf stored at the moment it is sent.
C17_ResendCarriesNewSession == []SentWithStored /\ [][ResentWithNew]_vars
C17_Witness ==
    /\ pc = "wire"
    /\ sending = "resend"
    /\ sent[1].sid = Some("s1") /\ sent[1].csrf = Some("c1")
    /\ sent[2].sid = Some("s2") /\ sent[2].csrf = Some("c2")
    /\ sent[2].req = sent[1].req
    /\ req.method = "POST"

\* C18: when the re-authentication started by a 401 uses up its attempts,
\* request() ends there: the request was sent once and is not sent again, no
\* value is returned, an exception reaches the caller, and the 401 response is
\* not the result.
C18_ReauthFailurePropagates ==
    (op = "request" /\ got # <<>> /\ got[1] = 401 /\ authOutcome = "raised")
        => /\ pc = "idle"
           /\ Len(sent) = 1
           /\ got = <<401>>
           /\ sending = "login"
           /\ attempts = max_retries
           /\ result.kind = "raised"
           /\ result.value[1] = "exc"
           /\ result.value[2] \in {last_exception, WrapRequestExc(last_exception)}
C18_Witness ==
    /\ Ended("request")
    /\ hadSession
    /\ got = <<401>>
    /\ authOutcome = "raised"
    /\ attempts = 3
    /\ Len(sent) = 1
    /\ result = Raised("Exception:Invalid session response")

\* The thread t is inside _authenticate; it is between a 401 and the end of
\* its call.
InAuthenticate(t) ==
    callers[t].pc \in {"post", "write_sid", "write_csrf", "write_validity"}
InRecovery(t) == callers[t].got = <<401>> /\ callers[t].pc # "done"
\* The (sid, csrf) pairs that one login response holds.
IssuedPairs ==
    {<<o.sid, o.csrf>> :
        o \in {u \in {LoginOutcome(Deliver(x), None, None, None) : x \in ConformingLogins} :
                 u.ok}}

\* C19 (as claimed): with two threads on one client, no two executions of
\* authenticate() and no two recoveries from a 401 are in progress at once, a
\* 401 seen by both threads leads to one login, and every request sent carries
\* a sid and a csrf of one and the same login response.
C19_Serialized ==
    /\ \A t, u \in Callers :
         t # u => /\ ~(InAuthenticate(t) /\ InAuthenticate(u))
                  /\ ~(InRecovery(t) /\ InRecovery(u))
    /\ (\A t \in Callers : callers[t].got = <<401>>)
         => callers[1].runs + callers[2].runs <= 1
    /\ \A t \in Callers :
         \A i \in 1..Len(callers[t].sent) : callers[t].sent[i] \in IssuedPairs
====
